---- MODULE Spec2Model ----
(***************************************************************************)
(* A model of pertrs: the PERT network scheduler of src/pert.rs and the    *)
(* Graphviz rendering of src/dot.rs.                                       *)
(*                                                                         *)
(* Numbers.  Every u32 of the program is held as its 32-bit pattern read   *)
(* in two's complement: a value v < 2^31 is the integer v, and a value     *)
(* v >= 2^31 is the integer v - 2^32 (so u32::MAX is -1).  Addition and    *)
(* subtraction work on 16-bit halves and give a pattern again, and the     *)
(* unsigned order is U32Lt.  A "checked" result is an Option: <<v>> for a  *)
(* value, <<>> for the panic of a build with overflow checks.              *)
(*                                                                         *)
(* Node and edge indices are 1-based here and 0-based in petgraph.         *)
(***************************************************************************)
EXTENDS Integers, Sequences, FiniteSets, TLC

VARIABLES
    rows,              \* DataLoader.rows: the loaded rows, in input order
    hasher,            \* the HashSet's iteration order over event labels
    overflow_checks,   \* the build: TRUE panics on overflow, FALSE wraps
    alternate,         \* the formatter's '#' flag seen by Escaped::fmt
    pc,                \* position in to_graph / Pert::new / graph_fmt
    nodes,             \* the graph's node weights (Event), by node index
    edges,             \* the graph's edges (endpoints and Task), by edge index
    start_node_index,  \* Pert::new's start_node_index (0: not yet set)
    end_node_index,    \* Pert::new's end_node_index (0: not yet set)
    error,             \* the message of the anyhow error returned, or ""
    dot,               \* the text graph_fmt has written, as statements
    iter               \* the all_simple_paths iterator being driven, or <<>>

vars == <<rows, hasher, overflow_checks, alternate, pc, nodes, edges,
          start_node_index, end_node_index, error, dot, iter>>

----------------------------------------------------------------------------
(* Bounds of the model. *)

\* The event labels the rows are drawn from.
Labels == {1, 2, 3}

\* The event labels of the acyclic networks (room for a diamond).
DagLabels == {1, 2, 3, 4}

\* Rows of an arbitrary input, and their largest duration.
MaxRows == 2

MaxDur == 1

\* The largest duration of an acyclic network's task.
DagDur == 2

\* Rows of an acyclic input with parallel tasks, and their largest duration.
ParRows == 4

ParDur == 1

\* The longest task name of a rendered input.
MaxNameLen == 3

\* Rows of an input whose passes are taken one iterator turn at a time.
IterRows == 3

\* Rows of an input whose durations reach u32::MAX.
TrapRows == 3

----------------------------------------------------------------------------
(* u32 arithmetic. *)

U32Lt(a, b) == IF (a < 0) = (b < 0) THEN a < b ELSE b < 0

U32Le(a, b) == a = b \/ U32Lt(a, b)

U32Max(a, b) == IF U32Lt(a, b) THEN b ELSE a

U32Min(a, b) == IF U32Lt(b, a) THEN b ELSE a

\* The two 16-bit halves of a u32 held as its 32-bit pattern, and the pattern
\* of two halves; arithmetic goes by halves so that no step leaves 32 bits.
U32Hi(a) == (a \div 65536) % 65536

U32Lo(a) == a % 65536

U32Of(hi, lo) == (IF hi >= 32768 THEN hi - 65536 ELSE hi) * 65536 + lo

\* a + b on u32: a carry out of the high half is the overflow, a panic with
\* overflow checks and dropped (the sum modulo 2^32) without.
U32Add(oc, a, b) ==
    LET lo == U32Lo(a) + U32Lo(b)
        hi == U32Hi(a) + U32Hi(b) + lo \div 65536
    IN  IF hi >= 65536 /\ oc THEN <<>>
        ELSE <<U32Of(hi % 65536, lo % 65536)>>

\* a - b on u32: it passes below 0 exactly when a < b in the unsigned order,
\* a panic with overflow checks and the difference modulo 2^32 without.
U32Sub(oc, a, b) ==
    LET lo == U32Lo(a) - U32Lo(b)
        hi == U32Hi(a) - U32Hi(b) - (IF lo < 0 THEN 1 ELSE 0)
    IN  IF U32Lt(a, b) /\ oc THEN <<>>
        ELSE <<U32Of(hi % 65536, lo % 65536)>>

----------------------------------------------------------------------------
(* The graph. *)

TaskNew(name, duration) ==
    [name |-> name, duration |-> duration, total_float |-> 0, free_float |-> 0]

is_critical_path(task) == task.total_float = 0

is_dummy_path(task) == task.duration = 0

EventNew(label) ==
    [label |-> label, fastest_begin |-> 0, latest_finish |-> 0]

Range(s) == {s[i] : i \in DOMAIN s}

\* The distinct labels of the rows, collected into the HashSet.
LabelSet(rs) == {rs[i].from : i \in DOMAIN rs} \cup {rs[i].to : i \in DOMAIN rs}

\* The HashSet's iteration: its members in the hasher's order.
RECURSIVE HashSetIter(_, _)
HashSetIter(h, set) ==
    IF h = <<>> THEN <<>>
    ELSE IF Head(h) \in set THEN <<Head(h)>> \o HashSetIter(Tail(h), set)
    ELSE HashSetIter(Tail(h), set)

\* node_index_map.get(label)
NodeIndexOf(ns, label) == CHOOSE i \in DOMAIN ns : ns[i].label = label

\* Graph::find_edge(a, b): the out-edges of a are walked from the most
\* recently added to the oldest and the first one into b is returned.
find_edge(es, a, b) ==
    LET hits == {k \in DOMAIN es : es[k].source = a /\ es[k].target = b}
    IN  CHOOSE k \in hits : \A j \in hits : j <= k

Successors(es, n) == {es[k].target : k \in {j \in DOMAIN es : es[j].source = n}}

Predecessors(es, n) == {es[k].source : k \in {j \in DOMAIN es : es[j].target = n}}

\* The indices for which keep holds, in index order (filter().collect()).
RECURSIVE Filter(_, _, _)
Filter(n, i, keep) ==
    IF i > n THEN <<>>
    ELSE IF i \in keep THEN <<i>> \o Filter(n, i + 1, keep)
    ELSE Filter(n, i + 1, keep)

\* start_node with the duplicate arm lost: the first candidate is returned.
start_node_first(ns, es) ==
    LET cand == Filter(Len(ns), 1, {n \in DOMAIN ns : Predecessors(es, n) = {}})
    IN  IF cand = <<>> THEN [ok |-> FALSE, msg |-> "Start node is not exist"]
        ELSE [ok |-> TRUE, index |-> cand[1]]

start_node(ns, es) ==
    LET cand == Filter(Len(ns), 1, {n \in DOMAIN ns : Predecessors(es, n) = {}})
    IN  IF cand = <<>> THEN [ok |-> FALSE, msg |-> "Start node is not exist"]
        ELSE IF Len(cand) = 1 THEN [ok |-> TRUE, index |-> cand[1]]
        ELSE [ok |-> FALSE, msg |-> "Start node is duplicated"]

end_node(ns, es) ==
    LET cand == Filter(Len(ns), 1, {n \in DOMAIN ns : Successors(es, n) = {}})
    IN  IF cand = <<>> THEN [ok |-> FALSE, msg |-> "End node is not exist"]
        ELSE IF Len(cand) = 1 THEN [ok |-> TRUE, index |-> cand[1]]
        ELSE [ok |-> FALSE, msg |-> "End node is duplicated"]

\* all_simple_paths(graph, from, to, 0, None): every path from -> to that
\* repeats no node; a child already on the path is skipped (so from = to
\* gives no path), a child equal to `to` ends a path, any other is entered.
RECURSIVE SimplePathsFrom(_, _, _)
SimplePathsFrom(es, path, to) ==
    UNION { IF c \in Range(path) THEN {}
            ELSE IF c = to THEN {Append(path, c)}
            ELSE SimplePathsFrom(es, Append(path, c), to)
            : c \in Successors(es, path[Len(path)]) }

all_simple_paths(es, from, to) == SimplePathsFrom(es, <<from>>, to)

\* path.iter().tuple_windows().fold(0, |begin, (n1, n2)| begin + duration)
RECURSIVE FoldBegin(_, _, _, _, _)
FoldBegin(es, oc, path, k, begin) ==
    IF k >= Len(path) THEN <<begin>>
    ELSE LET task == es[find_edge(es, path[k], path[k + 1])].task
             r    == U32Add(oc, begin, task.duration)
         IN  IF r = <<>> THEN <<>> ELSE FoldBegin(es, oc, path, k + 1, r[1])

\* path.iter().tuple_windows().fold(total_time, |finish, (n1, n2)| finish - duration)
RECURSIVE FoldFinish(_, _, _, _, _)
FoldFinish(es, oc, path, k, finish) ==
    IF k >= Len(path) THEN <<finish>>
    ELSE LET task == es[find_edge(es, path[k], path[k + 1])].task
             r    == U32Sub(oc, finish, task.duration)
         IN  IF r = <<>> THEN <<>> ELSE FoldFinish(es, oc, path, k + 1, r[1])

\* The largest (unsigned) member of a non-empty set of u32.
SetMax(S) == CHOOSE m \in S : \A x \in S : U32Le(x, m)

SetMin(S) == CHOOSE m \in S : \A x \in S : U32Le(m, x)

\* compute_fastest_begin taking the shortest path: min() for max().
compute_fastest_begin_min(es, oc, from, to) ==
    LET sums == {FoldBegin(es, oc, p, 1, 0) : p \in all_simple_paths(es, from, to)}
    IN  IF <<>> \in sums THEN <<>>
        ELSE IF sums = {} THEN <<0>>
        ELSE <<SetMin({s[1] : s \in sums})>>

compute_fastest_begin(es, oc, from, to) ==
    LET sums == {FoldBegin(es, oc, p, 1, 0) : p \in all_simple_paths(es, from, to)}
    IN  IF <<>> \in sums THEN <<>>
        ELSE IF sums = {} THEN <<0>>
        ELSE <<SetMax({s[1] : s \in sums})>>

compute_latest_finish(ns, es, oc, from, to) ==
    LET total_time == ns[to].fastest_begin
        outs == {FoldFinish(es, oc, p, 1, total_time) : p \in all_simple_paths(es, from, to)}
    IN  IF <<>> \in outs THEN <<>>
        ELSE IF outs = {} THEN <<total_time>>
        ELSE <<SetMin({s[1] : s \in outs})>>

\* Floats { total_float, free_float } of one edge, or <<>> where a checked
\* build panics (the total float is computed first).
compute_floats(ns, es, oc, k) ==
    LET begin_event  == ns[es[k].source]
        finish_event == ns[es[k].target]
        duration     == es[k].task.duration
        sum          == U32Add(oc, begin_event.fastest_begin, duration)
        total        == IF sum = <<>> THEN <<>>
                        ELSE U32Sub(oc, finish_event.latest_finish, sum[1])
        free         == IF total = <<>> THEN <<>>
                        ELSE U32Sub(oc, finish_event.fastest_begin, sum[1])
    IN  IF free = <<>> THEN <<>>
        ELSE <<[total_float |-> total[1], free_float |-> free[1]]>>

\* The first index in 1..n whose result is a panic, or n + 1.
FirstPanic(n, res) ==
    IF \E i \in 1..n : res[i] = <<>>
    THEN CHOOSE i \in 1..n : res[i] = <<>> /\ \A j \in 1..(i - 1) : res[j] # <<>>
    ELSE n + 1

\* Pert::new, lines 164-167: the forward pass over graph.node_indices(),
\* up to the first panic.
forward_pass(ns, es, oc, start) ==
    LET res  == [i \in DOMAIN ns |-> compute_fastest_begin(es, oc, start, i)]
        stop == FirstPanic(Len(ns), res)
    IN  [nodes |-> [i \in DOMAIN ns |->
                      IF i < stop THEN [ns[i] EXCEPT !.fastest_begin = res[i][1]]
                      ELSE ns[i]],
         panic |-> stop <= Len(ns)]

\* Pert::new, lines 170-173: the backward pass over graph.node_indices().
backward_pass(ns, es, oc, end) ==
    LET res  == [i \in DOMAIN ns |-> compute_latest_finish(ns, es, oc, i, end)]
        stop == FirstPanic(Len(ns), res)
    IN  [nodes |-> [i \in DOMAIN ns |->
                      IF i < stop THEN [ns[i] EXCEPT !.latest_finish = res[i][1]]
                      ELSE ns[i]],
         panic |-> stop <= Len(ns)]

\* Pert::new, lines 175-180: the floats of every edge, in edge order.
floats_pass(ns, es, oc) ==
    LET res  == [k \in DOMAIN es |-> compute_floats(ns, es, oc, k)]
        stop == FirstPanic(Len(es), res)
    IN  [edges |-> [k \in DOMAIN es |->
                      IF k < stop
                      THEN [es[k] EXCEPT !.task.total_float = res[k][1].total_float,
                                         !.task.free_float  = res[k][1].free_float]
                      ELSE es[k]],
         panic |-> stop <= Len(es)]

\* to_graph, lines 224-235: one node per distinct label, in the HashSet's order.
GraphNodes(rs, h) ==
    [i \in DOMAIN HashSetIter(h, LabelSet(rs)) |->
        EventNew(HashSetIter(h, LabelSet(rs))[i])]

\* to_graph, lines 237-241: one edge per row, in row order.
GraphEdges(rs, ns) ==
    [k \in DOMAIN rs |->
        [source |-> NodeIndexOf(ns, rs[k].from),
         target |-> NodeIndexOf(ns, rs[k].to),
         task   |-> TaskNew(rs[k].name, rs[k].weight)]]

\* Pert::new as one function of the graph: what it returns (kind "ok" with
\* the finished graph, kind "err" with the message) or that it panics.
PertNew(ns, es, oc) ==
    LET s == start_node(ns, es)
        f == forward_pass(ns, es, oc, s.index)
        e == end_node(f.nodes, es)
        b == backward_pass(f.nodes, es, oc, e.index)
        t == floats_pass(b.nodes, es, oc)
    IN  IF ~s.ok THEN [kind |-> "err", error |-> s.msg]
        ELSE IF f.panic THEN [kind |-> "panic"]
        ELSE IF ~e.ok THEN [kind |-> "err", error |-> e.msg]
        ELSE IF b.panic THEN [kind |-> "panic"]
        ELSE IF t.panic THEN [kind |-> "panic"]
        ELSE [kind |-> "ok", nodes |-> b.nodes, edges |-> t.edges]

\* DataLoader::to_graph as one function of the rows.
to_graph(rs, h, oc) == PertNew(GraphNodes(rs, h), GraphEdges(rs, GraphNodes(rs, h)), oc)

----------------------------------------------------------------------------
(* The actions: DataLoader::to_graph and the steps of Pert::new. *)

\* to_graph, lines 224-241: one node per distinct label, in the HashSet's
\* order, then one edge per row, in row order.
ToGraph ==
    /\ pc = "to_graph"
    /\ nodes' = GraphNodes(rows, hasher)
    /\ edges' = GraphEdges(rows, GraphNodes(rows, hasher))
    /\ pc' = "start_node"
    /\ UNCHANGED <<rows, hasher, overflow_checks, alternate, start_node_index,
                   end_node_index, error, dot, iter>>

\* Pert::new, line 163: let start_node_index = start_node(&graph)?;
StartNode ==
    /\ pc = "start_node"
    /\ LET r == start_node(nodes, edges)
       IN  IF r.ok
           THEN /\ start_node_index' = r.index
                /\ pc' = "forward"
                /\ error' = error
           ELSE /\ error' = r.msg
                /\ pc' = "err"
                /\ start_node_index' = start_node_index
    /\ UNCHANGED <<rows, hasher, overflow_checks, alternate, nodes, edges,
                   end_node_index, dot, iter>>

\* Pert::new, lines 164-167.
ForwardPass ==
    /\ pc = "forward"
    /\ LET r == forward_pass(nodes, edges, overflow_checks, start_node_index)
       IN  /\ nodes' = r.nodes
           /\ pc' = IF r.panic THEN "panic" ELSE "end_node"
    /\ UNCHANGED <<rows, hasher, overflow_checks, alternate, edges,
                   start_node_index, end_node_index, error, dot, iter>>

\* Pert::new, line 169: let end_node_index = end_node(&graph)?;
EndNode ==
    /\ pc = "end_node"
    /\ LET r == end_node(nodes, edges)
       IN  IF r.ok
           THEN /\ end_node_index' = r.index
                /\ pc' = "backward"
                /\ error' = error
           ELSE /\ error' = r.msg
                /\ pc' = "err"
                /\ end_node_index' = end_node_index
    /\ UNCHANGED <<rows, hasher, overflow_checks, alternate, nodes, edges,
                   start_node_index, dot, iter>>

\* Pert::new, lines 170-173.
BackwardPass ==
    /\ pc = "backward"
    /\ LET r == backward_pass(nodes, edges, overflow_checks, end_node_index)
       IN  /\ nodes' = r.nodes
           /\ pc' = IF r.panic THEN "panic" ELSE "floats"
    /\ UNCHANGED <<rows, hasher, overflow_checks, alternate, edges,
                   start_node_index, end_node_index, error, dot, iter>>

\* Pert::new, lines 175-182: the floats of every edge, then Ok(Pert(graph)).
FloatsPass ==
    /\ pc = "floats"
    /\ LET r == floats_pass(nodes, edges, overflow_checks)
       IN  /\ edges' = r.edges
           /\ pc' = IF r.panic THEN "panic" ELSE "ok"
    /\ UNCHANGED <<rows, hasher, overflow_checks, alternate, nodes,
                   start_node_index, end_node_index, error, dot, iter>>

----------------------------------------------------------------------------
(* Rendering: PertDot's Display, through Escaped and Escaper. *)

DigitChar(d) == <<"0", "1", "2", "3", "4", "5", "6", "7", "8", "9">>[d + 1]

RECURSIVE DecNat(_)
DecNat(n) == IF n < 10 THEN <<DigitChar(n)>>
             ELSE DecNat(n \div 10) \o <<DigitChar(n % 10)>>

\* The five low decimal digits of a number, zero-padded.
Pad5(n) == <<DigitChar((n \div 10000) % 10), DigitChar((n \div 1000) % 10),
             DigitChar((n \div 100) % 10), DigitChar((n \div 10) % 10),
             DigitChar(n % 10)>>

\* "{}" of a u32.  A pattern x < 0 stands for 2^32 + x = 42949 * 10^5 + 67296 + x.
U32Display(x) ==
    IF x >= 0 THEN DecNat(x)
    ELSE LET t == 67296 + x
         IN  DecNat(42949 + (t \div 100000)) \o Pad5(t % 100000)

\* impl Display for Task: "{}({})\nT: {} / F: {}"
TaskDisplay(task) ==
    task.name \o <<"(">> \o U32Display(task.duration) \o <<")", "\n", "T", ":", " ">>
    \o U32Display(task.total_float) \o <<" ", "/", " ", "F", ":", " ">>
    \o U32Display(task.free_float)

\* impl Display for Event: "{}\n{}..{}"
EventDisplay(event) ==
    U32Display(event.label) \o <<"\n">> \o U32Display(event.fastest_begin)
    \o <<".", ".">> \o U32Display(event.latest_finish)

\* write_char with the backslash left out of the first arm.
write_char_quote_only(c) ==
    IF c = "\n" THEN <<"\\", "l">>
    ELSE IF c = "\"" THEN <<"\\", c>>
    ELSE <<c>>

\* Escaper::write_char: what one character puts on the inner writer.
write_char(c) ==
    IF c = "\n" THEN <<"\\", "l">>
    ELSE IF c = "\"" \/ c = "\\" THEN <<"\\", c>>
    ELSE <<c>>

\* Escaper::write_str: write_char on each character in turn.
RECURSIVE write_str(_)
write_str(s) == IF s = <<>> THEN <<>> ELSE write_char(Head(s)) \o write_str(Tail(s))

\* What Escaped::fmt hands to the Escaper: the Display text, and with the
\* '#' flag the line end of writeln! as well.
EscapedInput(alt, text) == IF alt THEN text \o <<"\n">> ELSE text

\* Escaped(d).fmt(f)
Escaped(alt, text) == write_str(EscapedInput(alt, text))

\* The style attribute of an edge statement: the first matching arm.
EdgeStyle(task) ==
    IF is_dummy_path(task) THEN "dashed"
    ELSE IF is_critical_path(task) THEN "bold"
    ELSE ""

\* graph_fmt: the node statements, then the edge statements.
GraphFmt(ns, es, alt) ==
    [nodes |-> [i \in DOMAIN ns |->
                   [index |-> i - 1, label |-> Escaped(alt, EventDisplay(ns[i]))]],
     edges |-> [k \in DOMAIN es |->
                   [source |-> es[k].source - 1,
                    target |-> es[k].target - 1,
                    label  |-> Escaped(alt, TaskDisplay(es[k].task)),
                    style  |-> EdgeStyle(es[k].task)]]]

\* The finished network is printed with PertDot.
Render ==
    /\ pc = "ok"
    /\ dot' = GraphFmt(nodes, edges, alternate)
    /\ pc' = "rendered"
    /\ UNCHANGED <<rows, hasher, overflow_checks, alternate, nodes, edges,
                   start_node_index, end_node_index, error, iter>>

----------------------------------------------------------------------------
(* The two passes once more, one turn of the path iterator at a time:       *)
(* petgraph's all_simple_paths as compute_fastest_begin and                 *)
(* compute_latest_finish drive it (a stack of child iterators and the       *)
(* insertion-ordered set of visited nodes), each yielded path folded and    *)
(* merged into the running max() or min().                                  *)

\* graph.neighbors_directed(n, Outgoing): the targets of n's out-edges, from
\* the most recently added edge to the oldest.
RECURSIVE Neighbors(_, _, _)
Neighbors(es, n, k) ==
    IF k = 0 THEN <<>>
    ELSE (IF es[k].source = n THEN <<es[k].target>> ELSE <<>>) \o Neighbors(es, n, k - 1)

\* The head looked at and never taken: peek() for next().
AdvancePeek(children) == children

\* children.next(): the iterator after it has given its head.
Advance(children) == Tail(children)

\* What is left of an iterator after any(|v| v == to && !visited.contains(&v))
\* has found `to`.
RECURSIVE AfterFirst(_, _)
AfterFirst(children, to) ==
    IF children = <<>> THEN <<>>
    ELSE IF Head(children) = to THEN Tail(children)
    ELSE AfterFirst(Tail(children), to)

Front(s) == SubSeq(s, 1, Len(s) - 1)

\* all_simple_paths(graph, from, to, 0, None) for node i of the pass.
NewIter(pass, i) ==
    LET from == IF pass = "forward" THEN start_node_index ELSE i
        to   == IF pass = "forward" THEN i ELSE end_node_index
    IN  [pass |-> pass, node |-> i, from |-> from, to |-> to,
         visited |-> <<from>>,
         stack |-> <<Neighbors(edges, from, Len(edges))>>,
         best |-> <<>>]

\* The fold of one yielded path (lines 116-120 and 130-136).
FoldPath(it, path) ==
    IF it.pass = "forward" THEN FoldBegin(edges, overflow_checks, path, 1, 0)
    ELSE FoldFinish(edges, overflow_checks, path, 1, nodes[it.to].fastest_begin)

\* max() or min() so far, with one more value.
Merge(it, v) ==
    IF it.best = <<>> THEN <<v>>
    ELSE IF it.pass = "forward" THEN <<U32Max(it.best[1], v)>>
    ELSE <<U32Min(it.best[1], v)>>

\* The for loop reaches its first node and builds the iterator.
IterBegin ==
    /\ pc \in {"forward", "backward"}
    /\ iter = <<>>
    /\ iter' = NewIter(pc, 1)
    /\ UNCHANGED <<rows, hasher, overflow_checks, alternate, pc, nodes, edges,
                   start_node_index, end_node_index, error, dot>>

\* The iterator yields the path visited ++ [to] with its stack now stk; the
\* caller folds it, panics or merges, and asks for the next path.
Yield(stk) ==
    LET r == FoldPath(iter, Append(iter.visited, iter.to))
    IN  IF r = <<>>
        THEN /\ pc' = "panic"
             /\ iter' = <<>>
        ELSE /\ pc' = pc
             /\ iter' = [iter EXCEPT !.stack = stk, !.best = Merge(iter, r[1])]

\* One turn of the iterator's loop that finds a child on the top of the stack.
IterChild ==
    /\ iter # <<>>
    /\ iter.stack # <<>>
    /\ iter.stack[Len(iter.stack)] # <<>>
    /\ LET top      == Len(iter.stack)
           child    == Head(iter.stack[top])
           rest     == Advance(iter.stack[top])
           consumed == [iter.stack EXCEPT ![top] = rest]
       IN  IF child \in Range(iter.visited)
           THEN /\ iter' = [iter EXCEPT !.stack = consumed]
                /\ pc' = pc
           ELSE IF Len(iter.visited) < Len(nodes) - 1
           THEN IF child = iter.to
                THEN Yield(consumed)
                ELSE /\ iter' = [iter EXCEPT
                                   !.visited = Append(iter.visited, child),
                                   !.stack = Append(consumed,
                                                    Neighbors(edges, child, Len(edges)))]
                     /\ pc' = pc
           ELSE IF child = iter.to
                THEN Yield(consumed)
                ELSE IF iter.to \in Range(rest) /\ iter.to \notin Range(iter.visited)
                THEN Yield([iter.stack EXCEPT ![top] = AfterFirst(rest, iter.to)])
                ELSE /\ iter' = [iter EXCEPT !.stack = Front(iter.stack),
                                             !.visited = Front(iter.visited)]
                     /\ pc' = pc
    /\ UNCHANGED <<rows, hasher, overflow_checks, alternate, nodes, edges,
                   start_node_index, end_node_index, error, dot>>

\* One turn that finds the top iterator spent: stack.pop(); visited.pop().
IterPop ==
    /\ iter # <<>>
    /\ iter.stack # <<>>
    /\ iter.stack[Len(iter.stack)] = <<>>
    /\ iter' = [iter EXCEPT !.stack = Front(iter.stack),
                            !.visited = Front(iter.visited)]
    /\ UNCHANGED <<rows, hasher, overflow_checks, alternate, pc, nodes, edges,
                   start_node_index, end_node_index, error, dot>>

\* The iterator is spent: max().unwrap_or(0) or min().unwrap_or(total_time)
\* is stored in the node, and the for loop moves on.
IterEnd ==
    /\ iter # <<>>
    /\ iter.stack = <<>>
    /\ LET v == IF iter.best # <<>> THEN iter.best[1]
                ELSE IF iter.pass = "forward" THEN 0
                ELSE nodes[iter.to].fastest_begin
       IN  nodes' = IF iter.pass = "forward"
                    THEN [nodes EXCEPT ![iter.node].fastest_begin = v]
                    ELSE [nodes EXCEPT ![iter.node].latest_finish = v]
    /\ IF iter.node < Len(nodes)
       THEN /\ iter' = NewIter(iter.pass, iter.node + 1)
            /\ pc' = pc
       ELSE /\ iter' = <<>>
            /\ pc' = IF iter.pass = "forward" THEN "end_node" ELSE "floats"
    /\ UNCHANGED <<rows, hasher, overflow_checks, alternate, edges,
                   start_node_index, end_node_index, error, dot>>

----------------------------------------------------------------------------
(* The specifications. *)

DefaultName == <<"t">>

RowSet(froms, tos, durs, names) ==
    [from : froms, to : tos, weight : durs, name : names]

SeqsUpTo(S, n) == UNION {[1..k -> S] : k \in 0..n}

\* The orders a HashSet over the labels L can iterate in.
Hashers(L) ==
    {h \in [1..Cardinality(L) -> L] : \A i, j \in 1..Cardinality(L) : h[i] = h[j] => i = j}

RECURSIVE SetToSeq(_)
SetToSeq(S) ==
    IF S = {} THEN <<>>
    ELSE LET m == CHOOSE x \in S : \A y \in S : x <= y
         IN  <<m>> \o SetToSeq(S \ {m})

InitRest ==
    /\ pc = "to_graph"
    /\ nodes = <<>>
    /\ edges = <<>>
    /\ start_node_index = 0
    /\ end_node_index = 0
    /\ error = ""
    /\ dot = <<>>
    /\ iter = <<>>

\* Arbitrary rows: cycles, self-loops and parallel tasks included.
Init ==
    /\ rows \in SeqsUpTo(RowSet(Labels, Labels, 0..MaxDur, {DefaultName}), MaxRows)
    /\ hasher \in Hashers(LabelSet(rows))
    /\ overflow_checks \in BOOLEAN
    /\ alternate = FALSE
    /\ InitRest

Next ==
    \/ ToGraph
    \/ StartNode
    \/ ForwardPass
    \/ EndNode
    \/ BackwardPass
    \/ FloatsPass
    \/ Render

Spec == Init /\ [][Next]_vars

\* The ordered pairs from < to of the acyclic networks, in a fixed order.
DagPairs == SetToSeq({p \in {a * 10 + b : a, b \in DagLabels} : p \div 10 < p % 10})

\* The durations of an acyclic network's tasks: a dummy task or a long one.
DagDurs == {0, DagDur}

\* The rows of a choice w of durations for the pairs (-1: no such task).
RECURSIVE DagRows(_, _)
DagRows(w, k) ==
    IF k > Len(DagPairs) THEN <<>>
    ELSE (IF w[k] < 0 THEN <<>>
          ELSE <<[from |-> DagPairs[k] \div 10, to |-> DagPairs[k] % 10,
                  weight |-> w[k], name |-> DefaultName]>>)
         \o DagRows(w, k + 1)

\* Acyclic networks with at most one task per ordered pair of events.
DagInit ==
    /\ rows \in {DagRows(w, 1) : w \in [1..Len(DagPairs) -> {-1} \cup DagDurs]}
    /\ hasher \in Hashers(LabelSet(rows))
    /\ overflow_checks \in BOOLEAN
    /\ alternate = FALSE
    /\ InitRest

DagSpec == DagInit /\ [][Next]_vars

\* Acyclic inputs in any row order, parallel tasks included.
ParInit ==
    /\ rows \in SeqsUpTo({r \in RowSet(Labels, Labels, 0..ParDur, {DefaultName}) :
                             r.from < r.to}, ParRows)
    /\ hasher \in Hashers(LabelSet(rows))
    /\ overflow_checks \in BOOLEAN
    /\ alternate = FALSE
    /\ InitRest

ParSpec == ParInit /\ [][Next]_vars

\* The characters task names are made of.
NameChars == {"a", "\"", "\\", "\n"}

\* One task whose name is any short text, printed with or without '#'.
EscInit ==
    /\ rows \in {<<r>> : r \in RowSet({1}, {2}, 0..MaxDur, SeqsUpTo(NameChars, MaxNameLen))}
    /\ hasher \in Hashers(LabelSet(rows))
    /\ overflow_checks \in BOOLEAN
    /\ alternate \in BOOLEAN
    /\ InitRest

EscSpec == EscInit /\ [][Next]_vars

\* The durations of an input that can leave u32: 1 and u32::MAX.
TrapDurs == {1, U32Of(65535, 65535)}

\* Arbitrary rows whose durations can add up past u32::MAX.
TrapInit ==
    /\ rows \in SeqsUpTo(RowSet(Labels, Labels, TrapDurs, {DefaultName}), TrapRows)
    /\ hasher \in Hashers(LabelSet(rows))
    /\ overflow_checks \in BOOLEAN
    /\ alternate = FALSE
    /\ InitRest

TrapSpec == TrapInit /\ [][Next]_vars

\* Arbitrary rows again, the passes taken one iterator turn at a time: tasks
\* of duration MaxDur, the last of them possibly a dummy task.
IterInit ==
    /\ rows \in {rs \in SeqsUpTo(RowSet(Labels, Labels, {0, MaxDur}, {DefaultName}),
                                 IterRows) :
                     \A k \in 1..(Len(rs) - 1) : rs[k].weight = MaxDur}
    /\ hasher \in Hashers(LabelSet(rows))
    /\ overflow_checks \in BOOLEAN
    /\ alternate = FALSE
    /\ InitRest

IterNext ==
    \/ ToGraph
    \/ StartNode
    \/ IterBegin
    \/ IterChild
    \/ IterPop
    \/ IterEnd
    \/ EndNode
    \/ FloatsPass
    \/ Render

\* The program is one sequential computation: it always takes its next step.
FairSpec == IterInit /\ [][IterNext]_vars /\ WF_vars(IterNext)

----------------------------------------------------------------------------
(* What the claims speak of, read off the rows alone. *)

Finished == pc \in {"ok", "rendered"}

Final == pc \in {"ok", "rendered", "err", "panic"}

RowsInto(rs, l) == {k \in DOMAIN rs : rs[k].to = l}

RowsOutOf(rs, l) == {k \in DOMAIN rs : rs[k].from = l}

\* The events with no incoming task, and those with no outgoing task.
Sources(rs) == {l \in LabelSet(rs) : RowsInto(rs, l) = {}}

Sinks(rs) == {l \in LabelSet(rs) : RowsOutOf(rs, l) = {}}

\* The events reachable from the set S in at most n further tasks.
RECURSIVE Reach(_, _, _)
Reach(rs, S, n) ==
    IF n = 0 THEN S
    ELSE Reach(rs, S \cup {rs[k].to : k \in {j \in DOMAIN rs : rs[j].from \in S}}, n - 1)

Acyclic(rs) ==
    \A k \in DOMAIN rs : rs[k].from \notin Reach(rs, {rs[k].to}, Cardinality(LabelSet(rs)))

NoParallel(rs) ==
    \A j, k \in DOMAIN rs : (rs[j].from = rs[k].from /\ rs[j].to = rs[k].to) => j = k

SingleStartEnd(rs) == Cardinality(Sources(rs)) = 1 /\ Cardinality(Sinks(rs)) = 1

IntMax(S) == CHOOSE m \in S : \A x \in S : x <= m

\* The largest sum of durations over the task paths that end in event l
\* (in an acyclic network with one start they all begin at the start).
RECURSIVE LongestTo(_, _)
LongestTo(rs, l) ==
    IF RowsInto(rs, l) = {} THEN 0
    ELSE IntMax({LongestTo(rs, rs[k].from) + rs[k].weight : k \in RowsInto(rs, l)})

\* The largest sum of durations over the task paths that begin in event l.
RECURSIVE LongestFrom(_, _)
LongestFrom(rs, l) ==
    IF RowsOutOf(rs, l) = {} THEN 0
    ELSE IntMax({rs[k].weight + LongestFrom(rs, rs[k].to) : k \in RowsOutOf(rs, l)})

\* The length of the longest start -> end path.
ProjectLength(rs) == IntMax({LongestTo(rs, l) : l \in LabelSet(rs)})

\* Row k's task lies on a longest start -> end path.
OnLongestPath(rs, k) ==
    LongestTo(rs, rs[k].from) + rs[k].weight + LongestFrom(rs, rs[k].to) = ProjectLength(rs)

----------------------------------------------------------------------------
(* C1 *)

\* C1: in an acyclic network with one start, one end and at most one task per
\* ordered pair of events, a successful to_graph leaves in every event n
\* fastest_begin = the longest start -> n path and latest_finish = T minus the
\* longest n -> end path, where T = fastest_begin[end] = latest_finish[end] is
\* the longest start -> end path.
C1_LongestPaths ==
    (Finished /\ Acyclic(rows) /\ SingleStartEnd(rows) /\ NoParallel(rows)) =>
        /\ \A i \in DOMAIN nodes :
              /\ nodes[i].fastest_begin = LongestTo(rows, nodes[i].label)
              /\ nodes[i].latest_finish =
                     ProjectLength(rows) - LongestFrom(rows, nodes[i].label)
        /\ nodes[start_node_index].fastest_begin = 0
        /\ nodes[end_node_index].fastest_begin = ProjectLength(rows)
        /\ nodes[end_node_index].latest_finish = ProjectLength(rows)

\* A finished diamond: two routes of different length meet, so some event
\* has slack and another has none.
C1_Witness ==
    /\ Finished /\ Acyclic(rows) /\ SingleStartEnd(rows) /\ NoParallel(rows)
    /\ Len(rows) >= 4
    /\ Len(nodes) = 4
    /\ \E i \in DOMAIN nodes : nodes[i].fastest_begin < nodes[i].latest_finish
    /\ nodes[end_node_index].fastest_begin >= 3

----------------------------------------------------------------------------
(* C2 *)

\* C2: in every network Pert::new produces from an acyclic input with one
\* start and one end, a task has total_float = 0 exactly when it lies on a
\* longest start -> end path.
C2_CriticalIffLongest ==
    (Finished /\ Acyclic(rows) /\ SingleStartEnd(rows)) =>
        \A k \in DOMAIN edges :
            is_critical_path(edges[k].task) <=> OnLongestPath(rows, k)

----------------------------------------------------------------------------
(* C3 *)

\* C3: every task of every network Pert::new returns has
\* free_float <= total_float (as the u32 values they are).
C3_FreeLeTotal ==
    Finished =>
        \A k \in DOMAIN edges :
            U32Le(edges[k].task.free_float, edges[k].task.total_float)

----------------------------------------------------------------------------
(* C4 *)

\* C4: the outcome is an error and no network whenever the events with no
\* incoming task are not exactly one or those with no outgoing task are not
\* exactly one; the start is judged first, and each case has its message.
C4_TopologyErrors ==
    Final =>
        LET nin  == Cardinality(Sources(rows))
            nout == Cardinality(Sinks(rows))
        IN  /\ nin = 0 => (pc = "err" /\ error = "Start node is not exist")
            /\ nin >= 2 => (pc = "err" /\ error = "Start node is duplicated")
            /\ (nin = 1 /\ nout = 0) => (pc = "err" /\ error = "End node is not exist")
            /\ (nin = 1 /\ nout >= 2) => (pc = "err" /\ error = "End node is duplicated")
            /\ (nin = 1 /\ nout = 1) => pc # "err"
            /\ pc = "err" => dot = <<>>

----------------------------------------------------------------------------
(* C5 *)

HasParallel(rs) == ~NoParallel(rs)

\* The exact (unbounded) value of an edge's total float formula.
ExactTotalFloat(ns, e) ==
    ns[e.target].latest_finish - (ns[e.source].fastest_begin + e.task.duration)

ExactFreeFloat(ns, e) ==
    ns[e.target].fastest_begin - (ns[e.source].fastest_begin + e.task.duration)

\* C5: an acyclic input with one start and one end in which rows share an
\* ordered pair of events is scheduled: no panic, and for every task
\* fastest_begin[to] >= fastest_begin[from] + duration and total_float is the
\* non-negative latest_finish[to] - (fastest_begin[from] + duration).
C5_ParallelTasks ==
    (Final /\ HasParallel(rows) /\ Acyclic(rows) /\ SingleStartEnd(rows)) =>
        /\ Finished
        /\ \A k \in DOMAIN edges :
              /\ nodes[edges[k].target].fastest_begin >=
                     nodes[edges[k].source].fastest_begin + edges[k].task.duration
              /\ edges[k].task.total_float = ExactTotalFloat(nodes, edges[k])
              /\ edges[k].task.total_float >= 0

----------------------------------------------------------------------------
(* C6 *)

\* C6: in the rendered graph every task for which is_dummy_path holds is
\* emitted dashed and every task for which is_critical_path holds is emitted
\* bold, a zero-duration task on the longest path (both at once) included.
C6_DashedAndBold ==
    pc = "rendered" =>
        \A k \in DOMAIN edges :
            /\ is_dummy_path(edges[k].task) => dot.edges[k].style = "dashed"
            /\ is_critical_path(edges[k].task) => dot.edges[k].style = "bold"

----------------------------------------------------------------------------
(* C7 *)

NeedsEscape(c) == c = "\"" \/ c = "\\" \/ c = "\n"

\* Where the image of character i of the text begins in its escaped form.
RECURSIVE EscapedOffset(_, _)
EscapedOffset(text, i) ==
    IF i = 1 THEN 0
    ELSE EscapedOffset(text, i - 1) + (IF NeedsEscape(text[i - 1]) THEN 2 ELSE 1)

\* out is text with a backslash added before each quote and backslash, each
\* line break replaced by backslash-l, and every other character kept.
IsEscapeOf(out, text) ==
    /\ Len(out) = EscapedOffset(text, Len(text) + 1)
    /\ \A i \in DOMAIN text :
          LET o == EscapedOffset(text, i)
          IN  IF text[i] = "\n" THEN out[o + 1] = "\\" /\ out[o + 2] = "l"
              ELSE IF NeedsEscape(text[i]) THEN out[o + 1] = "\\" /\ out[o + 2] = text[i]
              ELSE out[o + 1] = text[i]

NoRawBreakOrQuote(out) ==
    \A i \in DOMAIN out :
        /\ out[i] # "\n"
        /\ out[i] = "\"" => (i > 1 /\ out[i - 1] = "\\")

\* C7: every label of the rendered graph is the text handed to the escaper
\* with each quote and backslash preceded by one added backslash, each line
\* break replaced by backslash-l and all else unchanged in order; it holds
\* no raw line break and no quote without a backslash before it.
C7_LabelEscaping ==
    pc = "rendered" =>
        /\ \A k \in DOMAIN edges :
              /\ IsEscapeOf(dot.edges[k].label,
                            EscapedInput(alternate, TaskDisplay(edges[k].task)))
              /\ NoRawBreakOrQuote(dot.edges[k].label)
        /\ \A i \in DOMAIN nodes :
              /\ IsEscapeOf(dot.nodes[i].label,
                            EscapedInput(alternate, EventDisplay(nodes[i])))
              /\ NoRawBreakOrQuote(dot.nodes[i].label)

\* A rendered task whose name holds a quote, a backslash and a line break.
C7_Witness ==
    /\ pc = "rendered"
    /\ \E k \in DOMAIN edges :
          /\ {"\"", "\\", "\n"} \subseteq Range(edges[k].task.name)
          /\ Len(dot.edges[k].label) > Len(TaskDisplay(edges[k].task)) + 3

----------------------------------------------------------------------------
(* C8 *)

\* C8: in an acyclic network with one start and one end no subtraction of
\* the schedule passes below zero: there is no panic, no event's
\* latest_finish has wrapped, and for every task u -> v of duration d
\* latest_finish[v] >= fastest_begin[u] + d and
\* fastest_begin[v] >= fastest_begin[u] + d, the stored floats being the
\* exact values of their formulas.
C8_NoUnderflow ==
    (Final /\ Acyclic(rows) /\ SingleStartEnd(rows)) =>
        /\ Finished
        /\ \A i \in DOMAIN nodes : nodes[i].latest_finish >= 0
        /\ \A k \in DOMAIN edges :
              /\ ExactTotalFloat(nodes, edges[k]) >= 0
              /\ ExactFreeFloat(nodes, edges[k]) >= 0
              /\ edges[k].task.total_float = ExactTotalFloat(nodes, edges[k])
              /\ edges[k].task.free_float = ExactFreeFloat(nodes, edges[k])

----------------------------------------------------------------------------
(* C9 *)

\* What a caller can tell of an outcome without the node indices: the kind,
\* the message, each event's times by label and each row's floats.
Observable(r) ==
    IF r.kind = "err" THEN <<"err", r.error>>
    ELSE IF r.kind = "panic" THEN <<"panic">>
    ELSE <<"ok",
           {<<r.nodes[i].label, r.nodes[i].fastest_begin, r.nodes[i].latest_finish>>
               : i \in DOMAIN r.nodes},
           [k \in DOMAIN r.edges |->
               <<r.nodes[r.edges[k].source].label, r.nodes[r.edges[k].target].label,
                 r.edges[k].task.total_float, r.edges[k].task.free_float>>]>>

\* The outcome this run has reached.
Reached ==
    IF pc = "err" THEN [kind |-> "err", error |-> error]
    ELSE IF pc = "panic" THEN [kind |-> "panic"]
    ELSE [kind |-> "ok", nodes |-> nodes, edges |-> edges]

\* C9: for the same rows and build, whatever order the nodes were allocated
\* in, the outcome reached is the outcome of allocating them in label order
\* (so any two allocation orders give the same outcome).
C9_OrderIndependent ==
    Final =>
        Observable(Reached) =
            Observable(to_graph(rows, SetToSeq(LabelSet(rows)), overflow_checks))

\* A finished chain of three events whose nodes were not allocated in label
\* order, the start event being the last node.
C9_Witness ==
    /\ Finished
    /\ Len(nodes) = 3
    /\ start_node_index = 3
    /\ end_node_index = 1
    /\ nodes[end_node_index].fastest_begin = 2

----------------------------------------------------------------------------
(* C10 *)

\* The passes taken turn by turn leave what the passes taken whole leave.
IterAgrees ==
    /\ (pc = "end_node" /\ iter = <<>>) =>
           nodes = forward_pass(GraphNodes(rows, hasher), edges, overflow_checks,
                                start_node_index).nodes
    /\ Final => Observable(Reached) = Observable(to_graph(rows, hasher, overflow_checks))

\* C10: for every list of rows, cyclic networks included, to_graph reaches
\* a final outcome: a finished network, an error or a panic.
C10_Terminates == <>Final

\* The forward pass is inside a cycle that lies ahead of the start: its path
\* has left the start for an event that a task leads back to.
C10_Witness ==
    /\ pc = "forward"
    /\ iter # <<>>
    /\ Len(iter.visited) >= 2
    /\ LET l == nodes[iter.visited[Len(iter.visited)]].label
       IN  \E k \in DOMAIN rows :
               /\ rows[k].from # rows[k].to
               /\ rows[k].to = l
               /\ rows[k].from \in Reach(rows, {l}, Cardinality(LabelSet(rows)))

====
